---- MODULE Spec2Model ----
(***************************************************************************)
(* aiofutures.AsyncExecutor: an executor that runs coroutines on an        *)
(* asyncio event loop owned by one worker thread (executor.py).            *)
(*                                                                         *)
(* The model follows executor.py statement by statement.  The asyncio      *)
(* calls the code makes (run_coroutine_threadsafe, call_soon_threadsafe,   *)
(* all_tasks, Task.cancel, gather, run_forever, run_until_complete, stop,  *)
(* close) are modelled at the granularity of the loop's ready queue: one   *)
(* _run_once iteration runs exactly the handles that were ready when it    *)
(* began, and loop.stop() takes effect when that iteration ends.           *)
(***************************************************************************)
EXTENDS Integers, Sequences, FiniteSets, TLC

\* ------------------------------------------------------------------ bounds
MaxTasks == 1        \* user coroutines submitted in one run
MaxSteps == 1        \* suspension points (awaits that yield) of one coroutine
MaxInputs == 2       \* length of the input sequence given to map()
MaxArg == 2          \* the inputs given to map() are drawn from 1..MaxArg

\* The caller threads: "ctl" owns the executor's lifecycle, "usr" only uses it.
Threads == {"ctl", "usr"}
Args == 1..MaxArg
\* Every submit() hands one coroutine to the loop, map() one for each input,
\* and the one shutdown() call of a thread that finds the executor running
\* hands it the stop coroutine.
MaxIds == MaxTasks + MaxInputs + Cardinality(Threads)
Ids == 1..MaxIds
\* The task that run_until_complete wraps around loop.shutdown_asyncgens().
SagId == 0
TaskIds == 0..MaxIds

VARIABLES
    stopped,      \* self._stopped
    phase,        \* where the worker thread is in _run
    stopping,     \* loop._stopping
    asleep,       \* the loop blocks in select() with nothing ready
    ntodo,        \* handles left to run in the current _run_once iteration
    ready,        \* loop._ready, the queue of scheduled handles
    gleft,        \* children of the finalizer gather that have not reported
    finDone,      \* the finalizer future is done
    nextId,       \* ids 1..nextId-1 name the coroutines handed to _submit
    kind,         \* "user" coroutine, one that delegates ("deleg"), the internal "stop", or "none"
    arg,          \* the argument the coroutine function was called with
    left,         \* suspension points the coroutine may still take
    tstate,       \* state of the asyncio.Task wrapping the coroutine
    mustCancel,   \* Task.cancel() was requested and not yet a finished task
    tval,         \* what the coroutine returned or raised (0: nothing yet)
    job,          \* the blocking call the coroutine handed to the thread pool
    hstate,       \* state of the concurrent.futures.Future for the coroutine
    hval,         \* its result value (0: none)
    overtook,     \* history: a future was set while that of an earlier submission was pending
    pc,           \* position of each caller thread
    call,         \* arguments and locals of the call a thread is in
    res,          \* outcome of the last call a thread finished
    nSub,         \* submit() calls made
    mp,           \* the map() call of each thread (see NoMap)
    hist,         \* history: the call each thread made last (see NoHist)
    sdReturned    \* history: some shutdown() call has returned

loopVars == <<phase, stopping, asleep, ntodo, ready, gleft, finDone>>
taskVars == <<nextId, kind, arg, left, tstate, mustCancel, tval, job>>
handleVars == <<hstate, hval, overtook>>
thrVars == <<pc, call, res>>
cntVars == <<nSub, mp>>
histVars == <<hist, sdReturned>>
vars == <<stopped, loopVars, taskVars, handleVars, thrVars, cntVars, histVars>>

NoCall == [w |-> FALSE, c |-> FALSE, a |-> 0, snap |-> {}]

\* A thread's map() call: its inputs, the futures submit() returned for them,
\* the values the result iterator has yielded, and while the iterator's
\* finally clause runs, the index of the next future it cancels.
NoMap == [ins |-> <<>>, fs |-> <<>>, out |-> <<>>, ci |-> 0]

\* What is remembered of a thread's last call:
\*   op         "submit", "shutdown", "cancel" or "cancel_futures"
\*   afterStop  submit: a shutdown() call had executed line 96 by then
\*   w, c       shutdown: its arguments wait and cancel_futures
\*   outst      shutdown: the handles outstanding when the call was made
\*   second     shutdown: an earlier shutdown() call had returned by then
\*   found      shutdown: the call found _stopped set and returned at line 94
\*   h, began   cancel: the handle, and whether its coroutine had begun to run
NoHist == [op |-> "none", afterStop |-> FALSE, w |-> FALSE, c |-> FALSE,
           outst |-> {}, second |-> FALSE, found |-> FALSE, h |-> 0, began |-> FALSE]

\* The coroutine function handed to submit (task in _submit, line 130): the
\* value its coroutine returns for the argument it was called with. Any
\* function may be passed; this one is injective and has no fixed point, so a
\* handle's result is told apart from the argument and from other results.
TaskFn(a) == 2 * a + 1

\* The exception such a coroutine raises when it fails, told apart from every
\* return value and from the executor's own InvalidStateError.
TaskExc(a) == 0 - 2 * a

\* exceptions.InvalidStateError, as a task outcome.
InvalidStateError == -1

\* The blocking function a coroutine hands to sync_to_async: the value it
\* returns for its argument, different from what any coroutine function
\* returns.
BlockingFn(a) == 2 * a + 10

H(k, i) == [k |-> k, i |-> i]

\* asyncio.all_tasks(loop): the tasks of the loop that are not done.
AllTasks == {i \in TaskIds : tstate[i] \in {"ready", "waiting"}}

\* Handles of submitted coroutines that are not yet finished.
Outstanding == {i \in Ids : kind[i] \in {"user", "deleg"} /\ hstate[i] = "Pending"}

\* The body of coroutine i has begun to execute: it finished, it suspended at
\* least once, or it handed a call to the pool.
HasBegun(i) ==
    \/ tstate[i] \in {"waiting", "done", "failed"}
    \/ kind[i] = "user" /\ tstate[i] \in {"ready", "cancelled"} /\ left[i] < MaxSteps
    \/ job[i] # "none"

LoopRunning == phase \in {"forever", "finalize", "asyncgens"}
WorkerExited == phase \in {"closed", "crashed"}

Init ==
    /\ stopped = FALSE
    /\ phase = "start"
    /\ stopping = FALSE
    /\ asleep = FALSE
    /\ ntodo = 0
    /\ ready = <<>>
    /\ gleft = {}
    /\ finDone = FALSE
    /\ nextId = 1
    /\ kind = [i \in Ids |-> "none"]
    /\ arg = [i \in Ids |-> 0]
    /\ left = [i \in Ids |-> 0]
    /\ tstate = [i \in TaskIds |-> "none"]
    /\ mustCancel = [i \in TaskIds |-> FALSE]
    /\ tval = [i \in Ids |-> 0]
    /\ job = [i \in Ids |-> "none"]
    /\ hstate = [i \in Ids |-> "None"]
    /\ hval = [i \in Ids |-> 0]
    /\ overtook = FALSE
    /\ pc = [t \in Threads |-> "idle"]
    /\ call = [t \in Threads |-> NoCall]
    /\ res = [t \in Threads |-> "none"]
    /\ nSub = 0
    /\ mp = [t \in Threads |-> NoMap]
    /\ hist = [t \in Threads |-> NoHist]
    /\ sdReturned = FALSE


\* Mutant of SubmitCoroutine: the coroutine is created without the caller's
\* argument.
SubmitCoroutineLosesArgs(k, a) ==
    /\ nextId' = nextId + 1
    /\ kind' = [kind EXCEPT ![nextId] = k]
    /\ arg' = [arg EXCEPT ![nextId] = 1]
    /\ left' = [left EXCEPT ![nextId] = IF k = "user" THEN MaxSteps ELSE 0]
    /\ hstate' = [hstate EXCEPT ![nextId] = "Pending"]
    /\ ready' = Append(ready, H("cb", nextId))
    /\ asleep' = FALSE
    /\ UNCHANGED <<hval, overtook, tstate, mustCancel, tval, job,
                   phase, stopping, ntodo, gleft, finDone>>

\* Mutant of SubmitCoroutine: the callback is put in front of the callbacks
\* that are waiting for the next iteration instead of behind them.
SubmitCoroutineJumpsQueue(k, a) ==
    /\ nextId' = nextId + 1
    /\ kind' = [kind EXCEPT ![nextId] = k]
    /\ arg' = [arg EXCEPT ![nextId] = a]
    /\ left' = [left EXCEPT ![nextId] = IF k = "user" THEN MaxSteps ELSE 0]
    /\ hstate' = [hstate EXCEPT ![nextId] = "Pending"]
    /\ ready' = SubSeq(ready, 1, ntodo) \o <<H("cb", nextId)>> \o SubSeq(ready, ntodo + 1, Len(ready))
    /\ asleep' = FALSE
    /\ UNCHANGED <<hval, overtook, tstate, mustCancel, tval, job,
                   phase, stopping, ntodo, gleft, finDone>>

\* ------------------------------------------------- hand-off to the loop
\* run_coroutine_threadsafe(coroutine, self._loop): a new concurrent future,
\* and loop.call_soon_threadsafe(callback), which appends the callback to the
\* ready queue and wakes the loop. The asyncio.Task is created only when the
\* loop runs the callback.
SubmitCoroutine(k, a) ==
    /\ nextId' = nextId + 1
    /\ kind' = [kind EXCEPT ![nextId] = k]
    /\ arg' = [arg EXCEPT ![nextId] = a]
    /\ left' = [left EXCEPT ![nextId] = IF k = "user" THEN MaxSteps ELSE 0]
    /\ hstate' = [hstate EXCEPT ![nextId] = "Pending"]
    /\ ready' = Append(ready, H("cb", nextId))
    /\ asleep' = FALSE
    /\ UNCHANGED <<hval, overtook, tstate, mustCancel, tval, job,
                   phase, stopping, ntodo, gleft, finDone>>

\* call_soon_threadsafe raises RuntimeError('Event loop is closed') after close().
LoopClosed == phase = "closed"

\* Task.cancel() as the code calls it from cancel_futures, on the caller's
\* thread: a no-op on a finished task; otherwise the task is marked, and a
\* suspended task has its wake-up scheduled with call_soon, which does not
\* wake a loop blocked in select().
CancelledState(i) ==
    IF tstate[i] = "waiting" THEN [tstate EXCEPT ![i] = "ready"] ELSE tstate
CancelledFlags(i) ==
    IF tstate[i] \in {"ready", "waiting"} THEN [mustCancel EXCEPT ![i] = TRUE] ELSE mustCancel
CancelledReady(q, i) ==
    IF tstate[i] = "waiting" THEN Append(q, H("step", i)) ELSE q

\* The done callbacks of task i, in the order they were added: the chaining to
\* the concurrent future (or run_until_complete's callback for the asyncgens
\* task), then the finalizer gather's callback.
DoneCallbacks(i) ==
    (IF i = SagId THEN <<H("rucb", 0)>> ELSE <<H("chain", i)>>)
        \o (IF i \in gleft THEN <<H("gdone", i)>> ELSE <<>>)

\* ------------------------------------------------------ the worker: _run
\* Mutant of RunStart: the worker starts its loop with an empty queue.
RunStartDropsQueue ==
    /\ phase = "start"
    /\ phase' = "forever"
    /\ ready' = <<>>
    /\ UNCHANGED <<stopped, stopping, asleep, ntodo, gleft, finDone,
                   taskVars, handleVars, thrVars, cntVars, histVars>>

\* The thread started by __init__ reaches loop.run_forever().
RunStart ==
    /\ phase = "start"
    /\ phase' = "forever"
    /\ UNCHANGED <<stopped, stopping, asleep, ntodo, ready, gleft, finDone,
                   taskVars, handleVars, thrVars, cntVars, histVars>>

\* _run_once with nothing ready: the loop blocks in select().
Select ==
    /\ LoopRunning /\ ntodo = 0 /\ ~stopping /\ ready = <<>> /\ ~asleep
    /\ asleep' = TRUE
    /\ UNCHANGED <<stopped, phase, stopping, ntodo, ready, gleft, finDone,
                   taskVars, handleVars, thrVars, cntVars, histVars>>

\* _run_once begins: ntodo = len(self._ready).
BeginIter ==
    /\ LoopRunning /\ ntodo = 0 /\ ~stopping /\ ready # <<>> /\ ~asleep
    /\ ntodo' = Len(ready)
    /\ UNCHANGED <<stopped, phase, stopping, asleep, ready, gleft, finDone,
                   taskVars, handleVars, thrVars, cntVars, histVars>>

Running(k) == ntodo > 0 /\ Head(ready).k = k
Cur == Head(ready).i

\* The callback of run_coroutine_threadsafe: ensure_future(coro) creates the
\* task and schedules its first step; chaining to a concurrent future that is
\* already cancelled schedules task.cancel().
RunCallback ==
    /\ Running("cb")
    /\ tstate' = [tstate EXCEPT ![Cur] = "ready"]
    /\ ready' = Tail(ready) \o <<H("step", Cur)>>
                  \o (IF hstate[Cur] = "Cancelled" THEN <<H("cancel", Cur)>> ELSE <<>>)
    /\ ntodo' = ntodo - 1
    /\ UNCHANGED <<stopped, phase, stopping, asleep, gleft, finDone, nextId, kind,
                   arg, tval, job, left, mustCancel, handleVars, thrVars, cntVars, histVars>>

\* A step of a task that was cancelled: CancelledError is thrown into the
\* coroutine and the task ends cancelled.
StepCancelled ==
    /\ Running("step") /\ mustCancel[Cur]
    /\ tstate' = [tstate EXCEPT ![Cur] = "cancelled"]
    /\ ready' = Tail(ready) \o DoneCallbacks(Cur)
    /\ ntodo' = ntodo - 1
    /\ UNCHANGED <<stopped, phase, stopping, asleep, gleft, finDone, nextId, kind,
                   arg, tval, job, left, mustCancel, handleVars, thrVars, cntVars, histVars>>

\* A step of a user coroutine that reaches an await and suspends.
StepSuspend ==
    /\ Running("step") /\ ~mustCancel[Cur]
    /\ Cur # SagId /\ kind[Cur] = "user" /\ left[Cur] > 0
    /\ tstate' = [tstate EXCEPT ![Cur] = "waiting"]
    /\ left' = [left EXCEPT ![Cur] = left[Cur] - 1]
    /\ ready' = Tail(ready)
    /\ ntodo' = ntodo - 1
    /\ UNCHANGED <<stopped, phase, stopping, asleep, gleft, finDone, nextId, kind,
                   arg, tval, job, mustCancel, handleVars, thrVars, cntVars, histVars>>

\* A step of a user coroutine that returns (raised = FALSE) or raises.
StepFinish(raised) ==
    /\ Running("step") /\ ~mustCancel[Cur]
    /\ Cur # SagId /\ kind[Cur] = "user"
    /\ tstate' = [tstate EXCEPT ![Cur] = IF raised THEN "failed" ELSE "done"]
    /\ tval' = [tval EXCEPT ![Cur] = IF raised THEN TaskExc(arg[Cur]) ELSE TaskFn(arg[Cur])]
    /\ ready' = Tail(ready) \o DoneCallbacks(Cur)
    /\ ntodo' = ntodo - 1
    /\ UNCHANGED <<stopped, phase, stopping, asleep, gleft, finDone, nextId, kind,
                   arg, job, left, mustCancel, handleVars, thrVars, cntVars, histVars>>

\* Mutant of Stop: the stop coroutine returns without stopping the loop.
StopWithoutStop ==
    /\ ntodo > 0 /\ Head(ready).k = "step" /\ ~mustCancel[Head(ready).i]
    /\ Head(ready).i # SagId /\ kind[Head(ready).i] = "stop"
    /\ tstate' = [tstate EXCEPT ![Head(ready).i] = "done"]
    /\ ready' = Tail(ready) \o DoneCallbacks(Head(ready).i)
    /\ ntodo' = ntodo - 1
    /\ UNCHANGED <<stopped, phase, stopping, asleep, gleft, finDone, nextId, kind,
                   arg, tval, job, left, mustCancel, handleVars, thrVars, cntVars, histVars>>

\* _stop: self._loop.stop()
Stop ==
    /\ Running("step") /\ ~mustCancel[Cur]
    /\ Cur # SagId /\ kind[Cur] = "stop"
    /\ stopping' = TRUE
    /\ tstate' = [tstate EXCEPT ![Cur] = "done"]
    /\ ready' = Tail(ready) \o DoneCallbacks(Cur)
    /\ ntodo' = ntodo - 1
    /\ UNCHANGED <<stopped, phase, asleep, gleft, finDone, nextId, kind,
                   arg, tval, job, left, mustCancel, handleVars, thrVars, cntVars, histVars>>

\* The step of loop.shutdown_asyncgens(): nothing to close, it returns.
StepAsyncgens ==
    /\ Running("step") /\ ~mustCancel[Cur]
    /\ Cur = SagId
    /\ tstate' = [tstate EXCEPT ![Cur] = "done"]
    /\ ready' = Tail(ready) \o DoneCallbacks(Cur)
    /\ ntodo' = ntodo - 1
    /\ UNCHANGED <<stopped, phase, stopping, asleep, gleft, finDone, nextId, kind,
                   arg, tval, job, left, mustCancel, handleVars, thrVars, cntVars, histVars>>

\* The future a suspended coroutine awaits completes (a timer fires, a pool
\* call finishes): the task's wake-up is scheduled.
Wake(i) ==
    /\ LoopRunning /\ tstate[i] = "waiting" /\ job[i] = "none"
    /\ tstate' = [tstate EXCEPT ![i] = "ready"]
    /\ ready' = Append(ready, H("step", i))
    /\ asleep' = FALSE
    /\ UNCHANGED <<stopped, phase, stopping, ntodo, gleft, finDone, nextId, kind,
                   arg, tval, job, left, mustCancel, handleVars, thrVars, cntVars, histVars>>

\* ------------------------------------------------------ Future.cancel
\* Mutant of ChainedState: the task's outcome overwrites a cancelled future.
ChainedStateOverwrites(h, t) ==
    IF t = "cancelled" THEN "Cancelled"
    ELSE IF t = "failed" THEN "Failed" ELSE "Completed"

\* The state _set_concurrent_future_state gives the concurrent future of a
\* finished task: a future that is already cancelled stays so.
ChainedState(h, t) ==
    IF h = "Cancelled" \/ t = "cancelled" THEN "Cancelled"
    ELSE IF t = "failed" THEN "Failed" ELSE "Completed"

\* The task's done callback set up by run_coroutine_threadsafe.
RunChain ==
    /\ Running("chain")
    /\ hstate' = [hstate EXCEPT ![Cur] = ChainedState(hstate[Cur], tstate[Cur])]
    /\ hval' = [hval EXCEPT ![Cur] =
                   IF ChainedState(hstate[Cur], tstate[Cur]) \in {"Completed", "Failed"}
                   THEN tval[Cur] ELSE 0]
    /\ overtook' = (overtook \/ \E j \in 1..(Cur - 1) :
                                    /\ kind[j] = "user" /\ hstate[j] = "Pending"
                                    /\ kind[Cur] = "user" /\ hstate[Cur] = "Pending")
    /\ ready' = Tail(ready)
    /\ ntodo' = ntodo - 1
    /\ UNCHANGED <<stopped, phase, stopping, asleep, gleft, finDone, taskVars,
                   thrVars, cntVars, histVars>>

\* gather's done callback of one child: the last one completes the finalizer,
\* which schedules run_until_complete's callback.
RunGather ==
    /\ Running("gdone")
    /\ gleft' = gleft \ {Cur}
    /\ finDone' = (gleft \ {Cur} = {})
    /\ ready' = Tail(ready) \o (IF gleft \ {Cur} = {} THEN <<H("rucb", 0)>> ELSE <<>>)
    /\ ntodo' = ntodo - 1
    /\ UNCHANGED <<stopped, phase, stopping, asleep, taskVars, handleVars,
                   thrVars, cntVars, histVars>>

\* _run_until_complete_cb: loop.stop()
RunUntilCompleteCb ==
    /\ Running("rucb")
    /\ stopping' = TRUE
    /\ ready' = Tail(ready)
    /\ ntodo' = ntodo - 1
    /\ UNCHANGED <<stopped, phase, asleep, gleft, finDone, taskVars, handleVars,
                   thrVars, cntVars, histVars>>

\* run_forever returns after the iteration in which stop() was called; the
\* finally block gathers the unfinished tasks and runs the loop until the
\* gather is done (lines 124-125).
RunFinally ==
    /\ phase = "forever" /\ ntodo = 0 /\ stopping
    /\ stopping' = FALSE
    /\ phase' = "finalize"
    /\ gleft' = AllTasks
    /\ finDone' = (AllTasks = {})
    /\ ready' = IF AllTasks = {} THEN Append(ready, H("rucb", 0)) ELSE ready
    /\ UNCHANGED <<stopped, asleep, ntodo, taskVars, handleVars, thrVars, cntVars, histVars>>

\* run_until_complete(finalizer) returns, or raises RuntimeError when the loop
\* was stopped before the finalizer was done; then line 126 wraps
\* shutdown_asyncgens() in a task and runs the loop until it is done.
RunAsyncgens ==
    /\ phase = "finalize" /\ ntodo = 0 /\ stopping
    /\ stopping' = FALSE
    /\ IF finDone
       THEN /\ phase' = "asyncgens"
            /\ tstate' = [tstate EXCEPT ![SagId] = "ready"]
            /\ ready' = Append(ready, H("step", SagId))
       ELSE /\ phase' = "crashed"
            /\ UNCHANGED <<tstate, ready>>
    /\ UNCHANGED <<stopped, asleep, ntodo, gleft, finDone, nextId, kind, arg, tval, job, left,
                   mustCancel, handleVars, thrVars, cntVars, histVars>>

\* The second run_until_complete returns and line 127 closes the loop, or it
\* raises (stopped early, or its task was cancelled) and the thread dies with
\* the loop left open.
RunClose ==
    /\ phase = "asyncgens" /\ ntodo = 0 /\ stopping
    /\ stopping' = FALSE
    /\ IF tstate[SagId] = "done"
       THEN phase' = "closed" /\ ready' = <<>>
       ELSE phase' = "crashed" /\ ready' = ready
    /\ UNCHANGED <<stopped, asleep, ntodo, gleft, finDone, taskVars, handleVars,
                   thrVars, cntVars, histVars>>

Worker ==
    \/ RunStart \/ Select \/ BeginIter
    \/ RunCallback \/ StepCancelled \/ StepSuspend
    \/ StepFinish(FALSE) \/ StepFinish(TRUE) \/ Stop \/ StepAsyncgens
    \/ RunChain \/ RunGather \/ RunUntilCompleteCb
    \/ RunFinally \/ RunAsyncgens \/ RunClose
    \/ \E i \in Ids : Wake(i)


\* --------------------------------------------------- the caller threads
\* Some shutdown() call has executed line 96: the last call of some thread
\* did, or it found the flag already set by one that did.
ShutdownBegun ==
    \E t \in Threads : hist[t].op = "shutdown" /\ (hist[t].found \/ pc[t] # "shutdown_set")

Return(t, r) ==
    /\ pc' = [pc EXCEPT ![t] = "idle"]
    /\ call' = [call EXCEPT ![t] = NoCall]
    /\ res' = [res EXCEPT ![t] = r]

Goto(t, l) ==
    /\ pc' = [pc EXCEPT ![t] = l]
    /\ UNCHANGED res

\* Mutant of SubmitCheck: submit does not look at the stopped flag.
SubmitCheckIgnoresStopped(t, a) ==
    /\ pc[t] = "idle" /\ nSub < MaxTasks
    /\ nSub' = nSub + 1
    /\ hist' = [hist EXCEPT ![t] = [NoHist EXCEPT !.op = "submit", !.afterStop = ShutdownBegun]]
    /\ pc' = [pc EXCEPT ![t] = "submit_enqueue"]
    /\ call' = [call EXCEPT ![t].a = a]
    /\ res' = [res EXCEPT ![t] = "none"]
    /\ UNCHANGED <<stopped, loopVars, taskVars, handleVars, mp, sdReturned>>

\* A thread calls submit(task, a); lines 73-74: if self._stopped: raise
\* InvalidStateError. Entering the call touches nothing shared, so the call
\* is made where it reads the flag.
SubmitCheck(t, a) ==
    /\ pc[t] = "idle" /\ nSub < MaxTasks
    /\ nSub' = nSub + 1
    /\ hist' = [hist EXCEPT ![t] = [NoHist EXCEPT !.op = "submit", !.afterStop = ShutdownBegun]]
    /\ IF stopped
       THEN Return(t, "InvalidStateError")
       ELSE /\ pc' = [pc EXCEPT ![t] = "submit_enqueue"]
            /\ call' = [call EXCEPT ![t].a = a]
            /\ res' = [res EXCEPT ![t] = "none"]
    /\ UNCHANGED <<stopped, loopVars, taskVars, handleVars, mp, sdReturned>>

\* submit, line 75: return self._submit(task, *args, **kwargs)
Submit(t) ==
    /\ pc[t] = "submit_enqueue"
    /\ IF LoopClosed
       THEN /\ Return(t, "RuntimeError")
            /\ UNCHANGED <<loopVars, taskVars, handleVars>>
       ELSE /\ SubmitCoroutine("user", call[t].a)
            /\ Return(t, "handle")
    /\ UNCHANGED <<stopped, cntVars, histVars>>

\* Mutant of ShutdownCheck: shutdown has no early return.
ShutdownCheckNoReturn(t, w, c) ==
    /\ pc[t] = "idle" /\ ~hist[t].found
    /\ hist' = [hist EXCEPT ![t] = [NoHist EXCEPT !.op = "shutdown", !.w = w, !.c = c,
                                       !.outst = Outstanding, !.second = sdReturned,
                                       !.found = stopped]]
    /\ pc' = [pc EXCEPT ![t] = "shutdown_set"]
    /\ call' = [call EXCEPT ![t].w = w, ![t].c = c]
    /\ res' = [res EXCEPT ![t] = "none"]
    /\ UNCHANGED <<stopped, loopVars, taskVars, handleVars, cntVars, sdReturned>>

\* A thread calls shutdown(wait, cancel_futures); lines 93-94: if
\* self._stopped: return. Entering the call touches nothing shared, so the
\* call is made where it reads the flag. A call that returned at line 94
\* changed nothing, so a thread stops calling after one such call.
ShutdownCheck(t, w, c) ==
    /\ pc[t] = "idle" /\ ~hist[t].found
    /\ hist' = [hist EXCEPT ![t] = [NoHist EXCEPT !.op = "shutdown", !.w = w, !.c = c,
                                       !.outst = Outstanding, !.second = sdReturned,
                                       !.found = stopped]]
    /\ IF stopped
       THEN /\ Return(t, "returned")
            /\ sdReturned' = TRUE
       ELSE /\ pc' = [pc EXCEPT ![t] = "shutdown_set"]
            /\ call' = [call EXCEPT ![t].w = w, ![t].c = c]
            /\ res' = [res EXCEPT ![t] = "none"]
            /\ UNCHANGED sdReturned
    /\ UNCHANGED <<stopped, loopVars, taskVars, handleVars, cntVars>>

\* shutdown, lines 96-98: self._stopped = True; if cancel_futures: ...
ShutdownSet(t) ==
    /\ pc[t] = "shutdown_set"
    /\ stopped' = TRUE
    /\ Goto(t, IF call[t].c THEN "cancel_futures" ELSE "shutdown_stop")
    /\ UNCHANGED <<call, loopVars, taskVars, handleVars, cntVars, histVars>>

\* cancel_futures, line 110: the tasks self.tasks returns.
CancelFuturesTasks(t) ==
    /\ pc[t] = "cancel_futures"
    /\ call' = [call EXCEPT ![t].snap = AllTasks]
    /\ Goto(t, "cancel_loop")
    /\ UNCHANGED <<stopped, loopVars, taskVars, handleVars, cntVars, histVars>>

\* cancel_futures, line 111: task.cancel() for one of them.
CancelFuturesCancel(t, i) ==
    /\ pc[t] = "cancel_loop" /\ i \in call[t].snap
    /\ tstate' = CancelledState(i)
    /\ mustCancel' = CancelledFlags(i)
    /\ ready' = CancelledReady(ready, i)
    /\ call' = [call EXCEPT ![t].snap = call[t].snap \ {i}]
    /\ UNCHANGED <<pc, res, stopped, phase, stopping, asleep, ntodo, gleft, finDone,
                   nextId, kind, arg, tval, job, left, handleVars, cntVars, histVars>>

\* cancel_futures returns: to shutdown, line 101, or to the thread that
\* called it.
CancelFuturesReturn(t) ==
    /\ pc[t] = "cancel_loop" /\ call[t].snap = {}
    /\ IF hist[t].op = "shutdown"
       THEN Goto(t, "shutdown_stop") /\ UNCHANGED call
       ELSE Return(t, "returned")
    /\ UNCHANGED <<stopped, loopVars, taskVars, handleVars, cntVars, histVars>>

\* A thread calls the public cancel_futures(), line 108.
CancelFuturesCall(t) ==
    /\ pc[t] = "idle"
    /\ hist' = [hist EXCEPT ![t] = [NoHist EXCEPT !.op = "cancel_futures",
                                                   !.afterStop = ShutdownBegun,
                                                   !.outst = Outstanding]]
    /\ Goto(t, "cancel_futures")
    /\ UNCHANGED <<call, stopped, loopVars, taskVars, handleVars, cntVars, sdReturned>>

\* shutdown, lines 101-103: self._submit(self._stop); if wait: ...
ShutdownStop(t) ==
    /\ pc[t] = "shutdown_stop"
    /\ IF LoopClosed
       THEN /\ Return(t, "RuntimeError")
            /\ UNCHANGED <<loopVars, taskVars, handleVars, sdReturned>>
       ELSE /\ SubmitCoroutine("stop", 0)
            /\ IF call[t].w
               THEN Goto(t, "shutdown_join") /\ UNCHANGED <<call, sdReturned>>
               ELSE Return(t, "returned") /\ sdReturned' = TRUE
    /\ UNCHANGED <<stopped, cntVars, hist>>

\* shutdown, line 106: self._thread.join()
ShutdownJoin(t) ==
    /\ pc[t] = "shutdown_join" /\ WorkerExited
    /\ Return(t, "returned")
    /\ sdReturned' = TRUE
    /\ UNCHANGED <<stopped, loopVars, taskVars, handleVars, cntVars, hist>>

SubmitOps(t) ==
    \/ SubmitCheck(t, nSub + 1)
    \/ Submit(t)

ShutdownOps(t) ==
    \/ \E w, c \in BOOLEAN : ShutdownCheck(t, w, c)
    \/ ShutdownSet(t)
    \/ CancelFuturesTasks(t)
    \/ \E i \in TaskIds : CancelFuturesCancel(t, i)
    \/ CancelFuturesReturn(t)
    \/ ShutdownStop(t)
    \/ ShutdownJoin(t)

CancelFuturesOps(t) ==
    \/ CancelFuturesCall(t)
    \/ CancelFuturesTasks(t)
    \/ \E i \in TaskIds : CancelFuturesCancel(t, i)
    \/ CancelFuturesReturn(t)

\* One thread submits (its k-th call passes argument k) while another, the
\* owner of the executor, shuts it down.
Next ==
    \/ Worker
    \/ SubmitOps("usr")
    \/ ShutdownOps("ctl")

Spec == Init /\ [][Next]_vars


\* ------------------------------------------------------- Executor.map
\* AsyncExecutor inherits map() from concurrent.futures.Executor: it calls
\* self.submit(fn, a) for every input, in order, and returns an iterator that
\* yields future.result() for the futures in that order; when a result
\* raises, its finally clause cancels the futures not yet yielded.
InputSeqs == UNION {[1..n -> Args] : n \in 0..MaxInputs}

\* The future whose result the iterator yields next: fs.reverse() once, then
\* fs.pop() for every element.
NextFuture(m) == m.fs[Len(m.out) + 1]

\* A thread calls map(fn, ins).
MapCall(t, ins) ==
    /\ pc[t] = "idle" /\ mp[t] = NoMap /\ res[t] = "none"
    /\ mp' = [mp EXCEPT ![t].ins = ins]
    /\ pc' = [pc EXCEPT ![t] = IF ins = <<>> THEN "map_iter" ELSE "map_submit"]
    /\ UNCHANGED <<call, res, stopped, loopVars, taskVars, handleVars, nSub, histVars>>

\* submit, lines 73-74, for the next input.
MapSubmitCheck(t) ==
    /\ pc[t] = "map_submit"
    /\ IF stopped
       THEN Return(t, "InvalidStateError")
       ELSE Goto(t, "map_enqueue") /\ UNCHANGED call
    /\ UNCHANGED <<stopped, loopVars, taskVars, handleVars, cntVars, histVars>>

\* submit, line 75, for the next input; after the last one map() returns the
\* result iterator.
MapSubmit(t) ==
    /\ pc[t] = "map_enqueue"
    /\ IF LoopClosed
       THEN /\ Return(t, "RuntimeError")
            /\ UNCHANGED <<loopVars, taskVars, handleVars, mp>>
       ELSE /\ SubmitCoroutine("user", mp[t].ins[Len(mp[t].fs) + 1])
            /\ mp' = [mp EXCEPT ![t].fs = Append(mp[t].fs, nextId)]
            /\ Goto(t, IF Len(mp[t].fs) + 1 = Len(mp[t].ins) THEN "map_iter" ELSE "map_submit")
            /\ UNCHANGED call
    /\ UNCHANGED <<stopped, nSub, histVars>>

\* The iterator's next element: future.result() blocks until the future is
\* done, then returns its value or raises.
MapYield(t) ==
    /\ pc[t] = "map_iter" /\ Len(mp[t].out) < Len(mp[t].fs)
    /\ hstate[NextFuture(mp[t])] \in {"Completed", "Failed", "Cancelled"}
    /\ IF hstate[NextFuture(mp[t])] = "Completed"
       THEN /\ mp' = [mp EXCEPT ![t].out = Append(mp[t].out, hval[NextFuture(mp[t])])]
            /\ UNCHANGED pc
       ELSE /\ mp' = [mp EXCEPT ![t].ci = Len(mp[t].fs)]
            /\ pc' = [pc EXCEPT ![t] = "map_abort"]
    /\ UNCHANGED <<call, res, stopped, loopVars, taskVars, handleVars, nSub, histVars>>

\* The iterator is exhausted.
MapDone(t) ==
    /\ pc[t] = "map_iter" /\ Len(mp[t].out) = Len(mp[t].fs)
    /\ Return(t, "exhausted")
    /\ UNCHANGED <<stopped, loopVars, taskVars, handleVars, cntVars, histVars>>

\* The finally clause: future.cancel() for one future not yet yielded. A
\* pending future becomes cancelled, and if the task is chained to it,
\* task.cancel() is handed to the loop with call_soon_threadsafe.
MapCancel(t) ==
    /\ pc[t] = "map_abort" /\ mp[t].ci > Len(mp[t].out) + 1
    /\ LET h == mp[t].fs[mp[t].ci] IN
         IF hstate[h] = "Pending"
         THEN /\ hstate' = [hstate EXCEPT ![h] = "Cancelled"]
              /\ IF tstate[h] # "none" /\ ~LoopClosed
                 THEN ready' = Append(ready, H("cancel", h)) /\ asleep' = FALSE
                 ELSE UNCHANGED <<ready, asleep>>
         ELSE UNCHANGED <<hstate, ready, asleep>>
    /\ mp' = [mp EXCEPT ![t].ci = mp[t].ci - 1]
    /\ UNCHANGED <<pc, call, res, stopped, phase, stopping, ntodo, gleft, finDone,
                   taskVars, hval, overtook, nSub, histVars>>

\* The finally clause is over and the exception leaves the iterator.
MapRaise(t) ==
    /\ pc[t] = "map_abort" /\ mp[t].ci = Len(mp[t].out) + 1
    /\ Return(t, IF hstate[NextFuture(mp[t])] = "Failed" THEN "TaskError" ELSE "CancelledError")
    /\ UNCHANGED <<stopped, loopVars, taskVars, handleVars, cntVars, histVars>>

\* task.cancel() run by the loop, as scheduled for a cancelled future.
RunCancel ==
    /\ Running("cancel")
    /\ tstate' = CancelledState(Cur)
    /\ mustCancel' = CancelledFlags(Cur)
    /\ ready' = CancelledReady(Tail(ready), Cur)
    /\ ntodo' = ntodo - 1
    /\ UNCHANGED <<stopped, phase, stopping, asleep, gleft, finDone, nextId, kind,
                   arg, tval, job, left, handleVars, thrVars, cntVars, histVars>>

MapOps(t) ==
    \/ \E ins \in InputSeqs : MapCall(t, ins)
    \/ MapSubmitCheck(t)
    \/ MapSubmit(t)
    \/ MapYield(t)
    \/ MapDone(t)
    \/ MapCancel(t)
    \/ MapRaise(t)

\* One thread calls map() on the running executor: the worker stays in
\* run_forever.
NextMap ==
    \/ RunStart \/ Select \/ BeginIter
    \/ RunCallback \/ StepCancelled \/ StepSuspend
    \/ StepFinish(FALSE) \/ StepFinish(TRUE)
    \/ RunChain \/ RunCancel
    \/ (\E i \in Ids : Wake(i))
    \/ MapOps("usr")

SpecMap == Init /\ [][NextMap]_vars

\* ------------------------------------------------------- sync_to_async
\* A coroutine that delegates (async_with_sync_task in the tests): it awaits
\* executor.sync_to_async(fn, a) and returns what the await gives.

\* Mutant of StepDelegate: the blocking call is made on the worker thread,
\* which stays in this step until the call has finished.
StepDelegateBlocks ==
    /\ ntodo > 0 /\ Head(ready).k = "step" /\ ~mustCancel[Head(ready).i]
    /\ Head(ready).i # SagId /\ kind[Head(ready).i] = "deleg" /\ job[Head(ready).i] = "none"
    /\ job' = [job EXCEPT ![Head(ready).i] = "running"]
    /\ UNCHANGED <<stopped, loopVars, nextId, kind, arg, left, tstate, mustCancel, tval,
                   handleVars, thrVars, cntVars, histVars>>

\* Mutant of StepDelegate: sync_to_async does not look at the stopped flag.
StepDelegateIgnoresStopped ==
    /\ ntodo > 0 /\ Head(ready).k = "step" /\ ~mustCancel[Head(ready).i]
    /\ Head(ready).i # SagId /\ kind[Head(ready).i] = "deleg" /\ job[Head(ready).i] = "none"
    /\ tstate' = [tstate EXCEPT ![Head(ready).i] = "waiting"]
    /\ job' = [job EXCEPT ![Head(ready).i] = "running"]
    /\ ready' = Tail(ready)
    /\ ntodo' = ntodo - 1
    /\ UNCHANGED <<stopped, phase, stopping, asleep, gleft, finDone, nextId, kind,
                   arg, left, mustCancel, tval, handleVars, thrVars, cntVars, histVars>>

\* The first step of the coroutine calls sync_to_async (lines 83-85): it
\* raises InvalidStateError if self._stopped, which ends the coroutine;
\* otherwise run_in_executor hands the call to the thread pool and the
\* coroutine awaits the returned future, so the task suspends.
StepDelegate ==
    /\ Running("step") /\ ~mustCancel[Cur]
    /\ Cur # SagId /\ kind[Cur] = "deleg" /\ job[Cur] = "none"
    /\ IF stopped
       THEN /\ tstate' = [tstate EXCEPT ![Cur] = "failed"]
            /\ tval' = [tval EXCEPT ![Cur] = InvalidStateError]
            /\ ready' = Tail(ready) \o DoneCallbacks(Cur)
            /\ UNCHANGED job
       ELSE /\ tstate' = [tstate EXCEPT ![Cur] = "waiting"]
            /\ job' = [job EXCEPT ![Cur] = "running"]
            /\ ready' = Tail(ready)
            /\ UNCHANGED tval
    /\ ntodo' = ntodo - 1
    /\ UNCHANGED <<stopped, phase, stopping, asleep, gleft, finDone, nextId, kind,
                   arg, left, mustCancel, handleVars, thrVars, cntVars, histVars>>

\* A pool thread finishes the blocking call: the future run_in_executor
\* returned is completed through call_soon_threadsafe, unless the loop is
\* closed by then.
PoolFinish(i) ==
    /\ job[i] = "running"
    /\ job' = [job EXCEPT ![i] = "done"]
    /\ IF LoopClosed
       THEN UNCHANGED <<ready, asleep>>
       ELSE ready' = Append(ready, H("pool", i)) /\ asleep' = FALSE
    /\ UNCHANGED <<stopped, phase, stopping, ntodo, gleft, finDone, nextId, kind,
                   arg, left, tstate, mustCancel, tval, handleVars, thrVars, cntVars, histVars>>

\* The loop sets the awaited future's result, which schedules the wake-up of
\* the task still awaiting it; a task cancelled meanwhile no longer does.
RunPoolDone ==
    /\ Running("pool")
    /\ IF tstate[Cur] = "waiting"
       THEN /\ tstate' = [tstate EXCEPT ![Cur] = "ready"]
            /\ ready' = Tail(ready) \o <<H("step", Cur)>>
       ELSE /\ ready' = Tail(ready)
            /\ UNCHANGED tstate
    /\ ntodo' = ntodo - 1
    /\ UNCHANGED <<stopped, phase, stopping, asleep, gleft, finDone, nextId, kind,
                   arg, left, mustCancel, tval, job, handleVars, thrVars, cntVars, histVars>>

\* The coroutine resumes with the result of the blocking call and returns it.
StepResume ==
    /\ Running("step") /\ ~mustCancel[Cur]
    /\ Cur # SagId /\ kind[Cur] = "deleg" /\ job[Cur] = "done"
    /\ tstate' = [tstate EXCEPT ![Cur] = "done"]
    /\ tval' = [tval EXCEPT ![Cur] = BlockingFn(arg[Cur])]
    /\ ready' = Tail(ready) \o DoneCallbacks(Cur)
    /\ ntodo' = ntodo - 1
    /\ UNCHANGED <<stopped, phase, stopping, asleep, gleft, finDone, nextId, kind,
                   arg, left, mustCancel, job, handleVars, thrVars, cntVars, histVars>>

\* A thread calls submit(async_with_sync_task, executor, a): lines 73-74.
DelegateCheck(t, a) ==
    /\ pc[t] = "idle" /\ \A i \in Ids : kind[i] # "deleg"
    /\ hist' = [hist EXCEPT ![t] = [NoHist EXCEPT !.op = "submit", !.afterStop = ShutdownBegun]]
    /\ IF stopped
       THEN Return(t, "InvalidStateError")
       ELSE /\ pc' = [pc EXCEPT ![t] = "delegate_enqueue"]
            /\ call' = [call EXCEPT ![t].a = a]
            /\ res' = [res EXCEPT ![t] = "none"]
    /\ UNCHANGED <<stopped, loopVars, taskVars, handleVars, cntVars, sdReturned>>

\* Line 75 of that call.
DelegateSubmit(t) ==
    /\ pc[t] = "delegate_enqueue"
    /\ IF LoopClosed
       THEN /\ Return(t, "RuntimeError")
            /\ UNCHANGED <<loopVars, taskVars, handleVars>>
       ELSE /\ SubmitCoroutine("deleg", call[t].a)
            /\ Return(t, "handle")
    /\ UNCHANGED <<stopped, cntVars, histVars>>

DelegateOps(t) ==
    \/ \E a \in Args : DelegateCheck(t, a)
    \/ DelegateSubmit(t)

\* The handles the loop runs when coroutines delegate.
RunHandle ==
    \/ RunCallback \/ StepCancelled \/ StepSuspend
    \/ StepFinish(FALSE) \/ StepFinish(TRUE) \/ Stop \/ StepAsyncgens
    \/ StepDelegate \/ StepResume \/ RunPoolDone
    \/ RunChain \/ RunGather \/ RunUntilCompleteCb

\* One thread submits a delegating coroutine and plain ones to the running
\* executor: the worker stays in run_forever.
NextDelegate ==
    \/ RunStart \/ Select \/ BeginIter
    \/ RunCallback \/ StepSuspend
    \/ StepFinish(FALSE) \/ StepFinish(TRUE)
    \/ StepDelegate \/ StepResume \/ RunPoolDone
    \/ RunChain
    \/ (\E i \in Ids : Wake(i))
    \/ (\E i \in Ids : PoolFinish(i))
    \/ SubmitOps("usr")
    \/ DelegateOps("usr")

SpecDelegate == Init /\ [][NextDelegate]_vars

\* One thread submits a delegating coroutine while the owner shuts the
\* executor down.
NextDelegateStop ==
    \/ RunStart \/ Select \/ BeginIter
    \/ RunCallback \/ StepCancelled \/ Stop \/ StepAsyncgens
    \/ StepDelegate \/ StepResume \/ RunPoolDone
    \/ RunChain \/ RunGather \/ RunUntilCompleteCb
    \/ RunFinally \/ RunAsyncgens \/ RunClose
    \/ (\E i \in Ids : PoolFinish(i))
    \/ DelegateOps("usr")
    \/ ShutdownOps("ctl")

SpecDelegateStop == Init /\ [][NextDelegateStop]_vars

\* ------------------------------------------------- cancel() on a handle
\* Mutant of HandleCancel: cancel() also cancels a future that is done.
HandleCancelForces(t, i) ==
    /\ pc[t] = "idle" /\ kind[i] = "user" /\ hstate[i] # "None"
    /\ hist' = [hist EXCEPT ![t] = [NoHist EXCEPT !.op = "cancel", !.h = i,
                                                   !.began = HasBegun(i)]]
    /\ res' = [res EXCEPT ![t] = "True"]
    /\ hstate' = [hstate EXCEPT ![i] = "Cancelled"]
    /\ hval' = [hval EXCEPT ![i] = 0]
    /\ UNCHANGED <<pc, call, stopped, loopVars, taskVars, overtook, cntVars, sdReturned>>

\* A thread calls cancel() on the Future that submit returned (line 131):
\* a pending future becomes cancelled and, if the loop has chained the task
\* to it, task.cancel() is handed to the loop with call_soon_threadsafe; a
\* future that is done is left alone and cancel() returns False.
HandleCancel(t, i) ==
    /\ pc[t] = "idle" /\ kind[i] = "user" /\ hstate[i] # "None"
    /\ hist' = [hist EXCEPT ![t] = [NoHist EXCEPT !.op = "cancel", !.h = i,
                                                   !.began = HasBegun(i)]]
    /\ res' = [res EXCEPT ![t] = IF hstate[i] \in {"Pending", "Cancelled"} THEN "True" ELSE "False"]
    /\ IF hstate[i] = "Pending"
       THEN /\ hstate' = [hstate EXCEPT ![i] = "Cancelled"]
            /\ IF tstate[i] # "none" /\ ~LoopClosed
               THEN ready' = Append(ready, H("cancel", i)) /\ asleep' = FALSE
               ELSE UNCHANGED <<ready, asleep>>
       ELSE UNCHANGED <<hstate, ready, asleep>>
    /\ UNCHANGED <<pc, call, stopped, phase, stopping, ntodo, gleft, finDone,
                   taskVars, hval, overtook, cntVars, sdReturned>>

\* cancel() on the handle that the thread's last submit() returned.
HandleCancelLast(t) ==
    \E i \in Ids :
        /\ res[t] = "handle" /\ \A j \in Ids : kind[j] = "user" => j <= i
        /\ HandleCancel(t, i)

\* shutdown(wait=False, cancel_futures=True), line by line.
ShutdownCancelling(t) ==
    \/ ShutdownCheck(t, FALSE, TRUE)
    \/ ShutdownSet(t)
    \/ CancelFuturesTasks(t)
    \/ \E i \in TaskIds : CancelFuturesCancel(t, i)
    \/ CancelFuturesReturn(t)
    \/ ShutdownStop(t)

\* One thread submits to a running executor and cancels any of its handles
\* at any moment.
NextCancel ==
    \/ RunStart \/ Select \/ BeginIter
    \/ RunCallback \/ StepCancelled \/ StepSuspend
    \/ StepFinish(FALSE) \/ StepFinish(TRUE)
    \/ RunChain \/ RunCancel
    \/ \E i \in Ids : Wake(i)
    \/ SubmitOps("usr")
    \/ \E i \in Ids : HandleCancel("usr", i)

SpecCancel == Init /\ [][NextCancel]_vars

\* One thread submits and cancels the handle it was given while the owner
\* shuts the executor down, cancelling the tasks.
NextCancelStop ==
    \/ Worker
    \/ RunCancel
    \/ SubmitOps("usr")
    \/ HandleCancelLast("usr")
    \/ ShutdownCancelling("ctl")

SpecCancelStop == Init /\ [][NextCancelStop]_vars

\* One thread submits and calls cancel_futures() while the owner shuts the
\* executor down.
NextCancelAll ==
    \/ Worker
    \/ SubmitOps("usr")
    \/ CancelFuturesOps("usr")
    \/ ShutdownOps("ctl")

SpecCancelAll == Init /\ [][NextCancelAll]_vars

\* Both threads may call shutdown(), at any moment, while one of them also
\* submits.
NextRace ==
    \/ Worker
    \/ SubmitOps("usr")
    \/ ShutdownOps("usr")
    \/ ShutdownOps("ctl")

SpecRace == Init /\ [][NextRace]_vars

\* The scheduling the code relies on: the worker thread keeps running its
\* loop, a future that a coroutine awaits completes (every coroutine
\* terminates), and a caller thread that is inside a call keeps executing it.
InCall(t) ==
    \/ Submit(t)
    \/ ShutdownSet(t) \/ CancelFuturesTasks(t)
    \/ (\E i \in TaskIds : CancelFuturesCancel(t, i))
    \/ CancelFuturesReturn(t) \/ ShutdownStop(t) \/ ShutdownJoin(t)

FairSpec == Spec /\ WF_vars(Worker) /\ \A t \in Threads : WF_vars(InCall(t))

\* ------------------------------------------------------------- properties
Terminal(i) == hstate[i] \in {"Completed", "Failed", "Cancelled"}
Unfinished(i) == tstate[i] \in {"none", "ready", "waiting"}
InShutdown(t) == pc[t] \in {"shutdown_set", "cancel_futures", "cancel_loop",
                            "shutdown_stop", "shutdown_join"}
ShutdownReturned(t) == pc[t] = "idle" /\ hist[t].op = "shutdown" /\ res[t] = "returned"

\* C1: a submit() call made once a shutdown() call has set the stopped flag
\* never reaches the enqueue: it returns no handle and has raised
\* InvalidStateError, whatever the arguments of the shutdown and however far
\* the teardown has got.
C1_SubmitAfterShutdownRaises ==
    \A t \in Threads :
        hist[t].op = "submit" /\ hist[t].afterStop =>
            pc[t] = "idle" /\ res[t] = "InvalidStateError"

\* Witness of C1: a submit() made after shutdown began has raised while the
\* worker is still tearing down.
C1_Witness ==
    /\ hist["usr"].op = "submit" /\ hist["usr"].afterStop
    /\ res["usr"] = "InvalidStateError"
    /\ LoopRunning /\ nextId > 1

\* C2: a submit() that returned a handle has its task run by the worker before
\* the worker exits, and its handle does not stay Pending.
C2_AcceptedSubmissionRuns ==
    WorkerExited =>
        \A i \in Ids : kind[i] = "user" => ~Unfinished(i) /\ hstate[i] # "Pending"

\* C3: the handle of a submitted coroutine that returns (it is neither
\* cancelled nor raises) ends Completed with the coroutine's return value.
C3_ResultIsReturnValue ==
    WorkerExited =>
        \A i \in Ids : kind[i] = "user" /\ ~mustCancel[i] /\ tstate[i] # "failed" =>
            hstate[i] = "Completed" /\ hval[i] = TaskFn(arg[i])

\* The handle of task i holds the task's own outcome.
OwnOutcome(i) ==
    \/ tstate[i] = "done" /\ hstate[i] = "Completed" /\ hval[i] = TaskFn(arg[i])
    \/ tstate[i] = "failed" /\ hstate[i] = "Failed" /\ hval[i] = TaskExc(arg[i])

\* C4: when a call shutdown(wait=True, cancel_futures=False) has returned,
\* every task that was outstanding when it was made has run to its own
\* completion: its handle is Completed or Failed with the task's outcome.
C4_WaitDrainsOutstanding ==
    \A t \in Threads :
        ShutdownReturned(t) /\ hist[t].w /\ ~hist[t].c =>
            \A i \in hist[t].outst : OwnOutcome(i)

\* C5: when a call shutdown(wait=True, cancel_futures=True) has returned, no
\* handle that was outstanding when it was made is Pending.
C5_WaitCancelLeavesNonePending ==
    \A t \in Threads :
        ShutdownReturned(t) /\ hist[t].w /\ hist[t].c =>
            \A i \in hist[t].outst : Terminal(i)

\* C6: when the shutdown(cancel_futures=True) call that stops the executor has
\* run cancel_futures, every task that was outstanding when the call was made
\* and is still unfinished, queued or in flight, has been signalled to cancel.
C6_CancelFuturesSignalsOutstanding ==
    \A t \in Threads :
        pc[t] \in {"shutdown_stop", "shutdown_join"} /\ hist[t].c =>
            \A i \in hist[t].outst : Unfinished(i) => mustCancel[i]

\* C7: a shutdown() call made after another one has returned returns at once
\* without error and changes nothing: no flag, no queue entry, no task, no
\* handle.
C7_SecondShutdownChangesNothing ==
    [][\A t \in Threads :
          hist'[t] # hist[t] /\ hist'[t].op = "shutdown" /\ hist'[t].second =>
              /\ pc'[t] = "idle" /\ res'[t] = "returned"
              /\ UNCHANGED <<stopped, loopVars, taskVars, handleVars>>]_vars

\* Witness of C7: a second shutdown() call has returned while the teardown
\* started by the first is still going on.
C7_Witness ==
    /\ ShutdownReturned("ctl") /\ hist["ctl"].second /\ hist["ctl"].found
    /\ LoopRunning

\* C8: when a shutdown() call with wait=True has returned, the worker has
\* exited: the loop is closed and the thread has terminated.
C8_WaitReturnsAfterWorkerExit ==
    \A t \in Threads :
        ShutdownReturned(t) /\ hist[t].w => phase = "closed"

\* C9: once a shutdown() call is under way, a state follows in which no call
\* is inside shutdown and the worker has stopped and closed its loop; every
\* call that ended returned without error; and a call with wait=False never
\* waits for the worker thread.
C9_ShutdownDoesNotFreeze ==
    /\ (stopped \/ \E t \in Threads : InShutdown(t))
           ~> (phase = "closed" /\ \A t \in Threads : ~InShutdown(t))
    /\ [](\A t \in Threads :
             /\ pc[t] = "shutdown_join" => call[t].w
             /\ pc[t] = "idle" /\ hist[t].op = "shutdown" => res[t] = "returned")

\* Witness of C9: shutdown(wait=False) has returned while a task is still
\* outstanding and the worker still runs.
C9_Witness ==
    /\ ShutdownReturned("ctl") /\ ~hist["ctl"].w /\ ~hist["ctl"].found
    /\ LoopRunning /\ Outstanding # {}


\* C10: map() submits one coroutine per input, in input order, and the i-th
\* value its iterator yields is the result of the function for the i-th
\* input, in whatever order the coroutines finish.
C10_MapYieldsInInputOrder ==
    \A t \in Threads :
        /\ Len(mp[t].fs) <= Len(mp[t].ins)
        /\ pc[t] \in {"map_iter", "map_abort"} => Len(mp[t].fs) = Len(mp[t].ins)
        /\ \A k \in 1..Len(mp[t].fs) :
               kind[mp[t].fs[k]] = "user" /\ arg[mp[t].fs[k]] = mp[t].ins[k]
        /\ Len(mp[t].out) <= Len(mp[t].fs)
        /\ \A k \in 1..Len(mp[t].out) : mp[t].out[k] = TaskFn(mp[t].ins[k])

\* Witness of C10: map() has yielded the results of two different inputs, the
\* coroutine of the second having finished before that of the first.
C10_Witness ==
    /\ Len(mp["usr"].out) = 2
    /\ mp["usr"].ins[1] # mp["usr"].ins[2]
    /\ overtook

\* C11: sync_to_async suspends only the coroutine that called it: while the
\* blocking call runs in the pool that task is suspended, the worker is never
\* held back (whenever a handle is due the loop can run it), and a delegating
\* task that returned did so with the result of its blocking call.
C11_DelegationDoesNotBlockLoop ==
    /\ \A i \in Ids : job[i] = "running" /\ ~mustCancel[i] => tstate[i] = "waiting"
    /\ ntodo > 0 => ENABLED RunHandle
    /\ \A i \in Ids : kind[i] = "deleg" /\ tstate[i] = "done" =>
           job[i] = "done" /\ tval[i] = BlockingFn(arg[i])

\* Witness of C11: while the blocking call of one task is still running in the
\* pool, a coroutine submitted after it has run to completion.
C11_Witness ==
    \E i, j \in Ids :
        /\ i < j /\ kind[i] = "deleg" /\ job[i] = "running" /\ tstate[i] = "waiting"
        /\ kind[j] = "user" /\ hstate[j] = "Completed" /\ hval[j] = TaskFn(arg[j])

\* C12: once a shutdown() call has set the stopped flag, the step in which a
\* coroutine calls sync_to_async ends it with InvalidStateError and hands
\* nothing to the thread pool.
C12_DelegateAfterShutdownRaises ==
    [][\A i \in Ids :
          /\ kind[i] = "deleg" /\ job[i] = "none" /\ ~mustCancel[i]
          /\ tstate[i] = "ready" /\ tstate'[i] # "ready"
          /\ ShutdownBegun
          => tstate'[i] = "failed" /\ tval'[i] = InvalidStateError /\ job'[i] = "none"]_vars

\* Witness of C12: a delegating task that was outstanding when shutdown() was
\* called has failed with InvalidStateError, and its handle reports it.
C12_Witness ==
    \E i \in Ids :
        /\ kind[i] = "deleg" /\ i \in hist["ctl"].outst
        /\ job[i] = "none" /\ hstate[i] = "Failed" /\ hval[i] = InvalidStateError

\* C13: an error raised by a submitted coroutine is captured unchanged on its
\* handle: a Failed handle holds exactly the exception its task raised, and
\* when the worker has exited the handle of every task that raised is Failed
\* with that exception, also when the task finished while shutdown drained.
C13_TaskErrorCapturedOnHandle ==
    /\ \A i \in Ids : hstate[i] = "Failed" => tstate[i] = "failed" /\ hval[i] = tval[i]
    /\ WorkerExited =>
           \A i \in Ids : kind[i] = "user" /\ tstate[i] = "failed" =>
               hstate[i] = "Failed" /\ hval[i] = TaskExc(arg[i])

\* C14: when cancel() is called on a handle before the worker has begun to run
\* its coroutine, cancel() succeeds and the handle is Cancelled with no value,
\* and a Cancelled handle never changes, whatever its task does later.
C14_CancelBeforeStartSticks ==
    /\ [](\A t \in Threads :
             hist[t].op = "cancel" /\ ~hist[t].began =>
                 /\ res[t] = "True"
                 /\ hstate[hist[t].h] = "Cancelled" /\ hval[hist[t].h] = 0)
    /\ [][\A i \in Ids : hstate[i] = "Cancelled" =>
              hstate'[i] = "Cancelled" /\ hval'[i] = 0]_vars

\* Witness of C14: the handle was cancelled before its coroutine began, the
\* coroutine has nevertheless run and returned, and the handle is Cancelled.
C14_Witness ==
    /\ hist["usr"].op = "cancel" /\ ~hist["usr"].began
    /\ tstate[hist["usr"].h] = "done"
    /\ \A k \in 1..Len(ready) : ready[k].i # hist["usr"].h
    /\ hstate[hist["usr"].h] = "Cancelled"

\* C15: a handle's state is assigned once: it leaves Pending at most once, for
\* Completed, Failed or Cancelled, and then neither its state nor its value
\* changes, whoever acts: the worker, cancel() or shutdown.
C15_HandleSingleAssignment ==
    [][\A i \in Ids :
          /\ hstate[i] = "None" => hstate'[i] \in {"None", "Pending"}
          /\ hstate[i] = "Pending" => hstate'[i] \in {"Pending", "Completed", "Failed", "Cancelled"}
          /\ hstate[i] \in {"Completed", "Failed", "Cancelled"} =>
                 hstate'[i] = hstate[i] /\ hval'[i] = hval[i]]_vars

\* Witness of C15: cancel() was refused on a handle that the worker had
\* completed, after shutdown had signalled the tasks to cancel.
C15_Witness ==
    /\ hist["usr"].op = "cancel" /\ res["usr"] = "False"
    /\ hstate[hist["usr"].h] = "Completed"
    /\ stopped /\ hist["ctl"].op = "shutdown" /\ hist["ctl"].c

\* C16: the coroutines one thread submits begin to run in the order of its
\* submit calls: when a later one has begun, every earlier one has begun too.
C16_StartInSubmissionOrder ==
    \A i, j \in Ids :
        /\ i < j /\ kind[i] \in {"user", "deleg"} /\ kind[j] \in {"user", "deleg"}
        /\ HasBegun(j)
        => HasBegun(i)

\* Witness of C16: the first coroutine began and is suspended, and the second,
\* which began after it, has already returned.
C16_Witness ==
    \E i, j \in Ids :
        /\ i < j /\ kind[i] = "user" /\ kind[j] = "deleg"
        /\ tstate[i] = "waiting" /\ left[i] < MaxSteps
        /\ tstate[j] = "done"

\* C17: cancel_futures() called on a running executor signals every task that
\* was outstanding at the call and is still unfinished when it returns, and
\* leaves the lifecycle alone: the stopped flag stays false and the worker
\* stays in run_forever, so that a later submit() is accepted.
C17_CancelFuturesOnRunning ==
    \A t \in Threads :
        hist[t].op = "cancel_futures" /\ ~hist[t].afterStop /\ ~ShutdownBegun =>
            /\ ~stopped /\ phase \in {"start", "forever"}
            /\ pc[t] = "idle" => \A i \in hist[t].outst : Unfinished(i) => mustCancel[i]

\* C20: the stop coroutine that shutdown() hands to the loop is never
\* cancelled by a cancel_futures() call of another thread, so it stops the
\* loop and the worker exits.
C20_StopTaskNeverCancelled ==
    \A i \in Ids : kind[i] = "stop" => ~mustCancel[i] /\ tstate[i] # "cancelled"

\* C18 as stated: the constructor returns only when the worker is running
\* the loop, so every call on the executor finds the worker past its start.
C18_ConstructionWaitsForLoop ==
    \A t \in Threads : hist[t].op # "none" => phase # "start"

\* C18, amended: the constructor may return before the worker runs the loop,
\* but no submission is lost: while the loop is not closed, every accepted
\* coroutine whose task does not exist yet has its hand-off in the queue, and
\* the worker's start keeps the queue.
C18_EarlySubmissionKept ==
    /\ [](\A i \in Ids :
             kind[i] = "user" /\ tstate[i] = "none" /\ phase # "closed" =>
                 \E k \in 1..Len(ready) : ready[k] = H("cb", i))
    /\ [][phase = "start" /\ phase' # "start" => ready' = ready]_vars

\* Witness of C18: a submission was accepted and queued before the worker
\* reached run_forever.
C18_Witness ==
    /\ phase = "start"
    /\ \E i \in Ids : kind[i] = "user" /\ hstate[i] = "Pending" /\ ready = <<H("cb", i)>>
    /\ pc["usr"] = "idle" /\ res["usr"] = "handle"

\* C19: when several threads call shutdown() concurrently, one call performs
\* the shutdown sequence: at most one call is past the check of the stopped
\* flag, the stop coroutine is handed to the loop at most once, and no
\* shutdown call raises.
C19_OneShutdownPerforms ==
    /\ Cardinality({t \in Threads : InShutdown(t)}) <= 1
    /\ Cardinality({i \in Ids : kind[i] = "stop"}) <= 1
    /\ \A t \in Threads :
           pc[t] = "idle" /\ hist[t].op = "shutdown" => res[t] = "returned"

====
